---- MODULE Spec2Model ----
(***************************************************************************)
(* dataknead: TextLoader (src/dataknead/textloader.py).                    *)
(*                                                                         *)
(*   read(f)        = f.read().splitlines()                                *)
(*   write(f, data) = [f.write(line + "\n") for line in data]              *)
(*                                                                         *)
(* A string is a sequence of code points.  The stream f is a text stream   *)
(* handed in by the caller: its text, its position and whether it is open. *)
(* Reading returns the text from the position to the end; writing appends  *)
(* at the end (a stream opened for appending and reading).  A stream       *)
(* operation either takes effect as a whole or raises and changes nothing  *)
(* but the record of the operations issued on the stream.                  *)
(***************************************************************************)
EXTENDS Integers, Sequences, FiniteSets, TLC

\* ------------------------------------------------------------------ state
VARIABLES
  stream,  \* the stream f the caller hands to read and write:
           \* [content, pos, open], and ops, the operations the current or
           \* last call of read or write has issued on it
  pc,   \* "idle", or "write" inside the comprehension of write
  rd,   \* the last call of read: how it ended, the position it started at,
        \* the text f.read() returned, the value returned, and how many
        \* reads have followed one another with nothing in between (0..2)
  wr    \* the current or last call of write: how it ended, the text of the
        \* stream when it started, data, the iterations completed, the
        \* stream writes issued, whether one of them raised, whether data
        \* is the value the last read returned, and, when the write call
        \* before it succeeded on this text, that call's data and starting
        \* text

vars == <<stream, pc, rd, wr>>

\* ------------------------------------------------------------------ bounds
\* The longest text the modelled stream holds.
MaxStream == 3

\* ------------------------------------------------------------- characters
\* "\n", "\r" and "\f" (form feed), as code points.
NL == 10
CR == 13
FF == 12
\* The characters the model draws text from: "a" and the three above.
Chars == {97, NL, CR, FF}

\* Every character str.splitlines() treats as a line boundary.
LineBoundaries == {10, 11, 12, 13, 28, 29, 30, 133, 8232, 8233}

\* All strings over Chars of length at most n.
RECURSIVE StringsUpTo(_)
StringsUpTo(n) ==
  IF n <= 0 THEN {<<>>}
  ELSE LET shorter == StringsUpTo(n - 1)
           longest == {t \in shorter : Len(t) = n - 1}
       IN  shorter \cup {Append(s, c) : s \in longest, c \in Chars}

\* ------------------------------------------------------------ python values
\* An element of the data sequence: a str, or a value of another type (an
\* int), for which  line + "\n"  raises TypeError.
Str(s) == [type |-> "str", s |-> s]
NotStr == [type |-> "int", s |-> <<>>]
IsStr(e) == e.type = "str"

\* The strings of a sequence of str elements.
Texts(d) == [k \in 1..Len(d) |-> d[k].s]
\* The str elements of a sequence of strings.
Strs(ls) == [k \in 1..Len(ls) |-> Str(ls[k])]

\* The room an element takes in the stream when written (a non-str element
\* is never written; it counts 1 so that the input sets stay finite).
Cost(e) == IF IsStr(e) THEN Len(e.s) + 1 ELSE 1

RECURSIVE TotalCost(_)
TotalCost(d) == IF d = <<>> THEN 0 ELSE Cost(Head(d)) + TotalCost(Tail(d))

\* Every data sequence whose written form fits in n characters.
RECURSIVE DataUpTo(_)
DataUpTo(n) ==
  IF n <= 0 THEN {<<>>}
  ELSE {<<>>} \cup
       UNION { { <<e>> \o rest : rest \in DataUpTo(n - Cost(e)) }
               : e \in {Str(s) : s \in StringsUpTo(n - 1)} \cup {NotStr} }

\* --------------------------------------------------------- str.splitlines
\* s.splitlines(): scan s from index k; cur is the line being collected and
\* acc the lines found.  A boundary character ends the line, "\r\n" counts
\* as one boundary, and what follows the last boundary is a line only if it
\* is not empty.
RECURSIVE SplitLoop(_, _, _, _)
SplitLoop(s, k, cur, acc) ==
  IF k > Len(s)
  THEN IF cur = <<>> THEN acc ELSE Append(acc, cur)
  ELSE IF s[k] \in LineBoundaries
       THEN LET next == IF s[k] = CR /\ k < Len(s) /\ s[k + 1] = NL
                        THEN k + 2 ELSE k + 1
            IN  SplitLoop(s, next, <<>>, Append(acc, cur))
       ELSE SplitLoop(s, k + 1, Append(cur, s[k]), acc)

\* A string split at each "\n" in it: one piece more than it has "\n".
RECURSIVE SplitAtNL(_, _, _, _)
SplitAtNL(s, k, cur, acc) ==
  IF k > Len(s) THEN Append(acc, cur)
  ELSE IF s[k] = NL THEN SplitAtNL(s, k + 1, <<>>, Append(acc, cur))
       ELSE SplitAtNL(s, k + 1, Append(cur, s[k]), acc)

\* Variant of splitlines:  s.split("\n").
split_newline(s) == SplitAtNL(s, 1, <<>>, <<>>)

splitlines(s) == SplitLoop(s, 1, <<>>, <<>>)

\* ------------------------------------------------------------- the stream
\* Variant of f_read_text:  f.seek(0)  before  f.read(), the whole text
\* whatever the position.
f_read_all(f) == f.content

\* f.read(): the text from the position to the end ...
f_read_text(f) == SubSeq(f.content, f.pos + 1, Len(f.content))
\* ... and the position moves to the end.
f_read_stream(f) ==
  [f EXCEPT !.pos = Len(f.content), !.ops = Append(@, "read")]
\* f.read() raising.
f_read_raise(f) == [f EXCEPT !.ops = Append(@, "read")]

\* f.write(s): s is appended and the position moves to the end.
f_write(f, s) ==
  [f EXCEPT !.content = f.content \o s, !.pos = Len(f.content) + Len(s),
            !.ops = Append(@, "write")]
\* f.write(s) raising.
f_write_raise(f) == [f EXCEPT !.ops = Append(@, "write")]

\* ------------------------------------------------------------- TextLoader
\* Variant of read_value: the lines collected in a list that outlives the
\* call.
read_value_kept(f) == rd.ret \o splitlines(f_read_text(f))

\* read(f): the value returned ...
read_value(f) == splitlines(f_read_text(f))

\* Variant of read_stream: read closing the stream it was handed.
read_stream_closing(f) ==
  [f_read_stream(f) EXCEPT !.open = FALSE, !.ops = Append(@, "close")]

\* ... and the stream afterwards.
read_stream(f) == f_read_stream(f)

\* Variant of next_line: the elements taken from the last to the first.
next_line_reversed(d, done) == d[Len(d) - done]

\* The element the comprehension in write takes after done elements.
next_line(d, done) == d[done + 1]

\* Variant of line_nl: the element with no "\n" after it.
line_bare(line) == line

\* The argument of the stream write for one element:  line + "\n".
line_nl(line) == line \o <<NL>>

\* One iteration of the comprehension in write: the stream afterwards.
write_line(f, line) == f_write(f, line_nl(line))

\* Variant of step_outcome: the stream's error caught and dropped.
step_outcome_swallowed(line, ok) ==
  IF ~IsStr(line) THEN "TypeError" ELSE "none"

\* How one iteration ends: line + "\n" raises TypeError for a non-str
\* element before the stream is touched; otherwise what the stream write
\* raises (ok: it raises nothing) reaches the caller as it is.
step_outcome(line, ok) ==
  IF ~IsStr(line) THEN "TypeError" ELSE IF ok THEN "none" ELSE "stream"

\* ------------------------------------------------------------ the calls
NoRead ==
  [status |-> "none", from |-> 0, text |-> <<>>, ret |-> <<>>, n |-> 0]
NoWrite == [status |-> "none", base |-> <<>>, data |-> <<>>, done |-> 0,
            writes |-> 0, failed |-> FALSE, echo |-> FALSE,
            chained |-> FALSE, prev |-> <<>>, prevbase |-> <<>>]

Init ==
  /\ stream \in {[content |-> c, pos |-> 0, open |-> TRUE, ops |-> <<>>] :
                   c \in StringsUpTo(MaxStream)}
  /\ pc = "idle"
  /\ rd = NoRead
  /\ wr = NoWrite

Min(a, b) == IF a < b THEN a ELSE b

\* read(f), f.read() succeeding.
ReadOk ==
  /\ pc = "idle"
  /\ stream.open
  /\ rd' = [status |-> "ok", from |-> stream.pos,
            text |-> f_read_text(stream), ret |-> read_value(stream),
            n |-> IF rd.status = "ok" THEN Min(rd.n + 1, 2) ELSE 1]
  /\ stream' = read_stream([stream EXCEPT !.ops = <<>>])
  /\ wr' = [wr EXCEPT !.echo = FALSE]
  /\ UNCHANGED pc

\* read(f), f.read() raising (always, on a closed stream): nothing is
\* caught, the call ends with the stream's error.
ReadRaise ==
  /\ pc = "idle"
  /\ rd' = [status |-> "stream", from |-> stream.pos, text |-> <<>>,
            ret |-> <<>>, n |-> 0]
  /\ stream' = f_read_raise([stream EXCEPT !.ops = <<>>])
  /\ wr' = [wr EXCEPT !.echo = FALSE]
  /\ UNCHANGED pc

\* write(f, d) is called: the comprehension starts.  The caller passes any
\* data that fits the model's stream, or the value the last read returned.
WriteCall ==
  /\ pc = "idle"
  /\ \E echo \in BOOLEAN :
       \E d \in IF echo THEN {Strs(rd.ret)}
                ELSE DataUpTo(MaxStream - Len(stream.content)) :
         /\ echo => rd.status = "ok"
         /\ Len(stream.content) + TotalCost(d) <= MaxStream
         /\ wr' = [status |-> "running", base |-> stream.content, data |-> d,
                   done |-> 0, writes |-> 0, failed |-> FALSE, echo |-> echo,
                   chained |-> (wr.status = "ok"),
                   prev |-> IF wr.status = "ok" THEN wr.data ELSE <<>>,
                   prevbase |-> IF wr.status = "ok" THEN wr.base ELSE <<>>]
         /\ rd' = IF echo THEN [rd EXCEPT !.n = 0] ELSE NoRead
  /\ pc' = "write"
  /\ stream' = [stream EXCEPT !.ops = <<>>]

\* One iteration: f.write(line + "\n").  The stream write is issued when
\* line + "\n" evaluates, and takes effect when the stream raises nothing
\* (ok, on an open stream).
WriteStep ==
  /\ pc = "write"
  /\ wr.done < Len(wr.data)
  /\ LET line == next_line(wr.data, wr.done) IN
     \E ok \in BOOLEAN :
       LET accepted == ok /\ stream.open
           out == step_outcome(line, accepted)
       IN
       /\ stream' = IF ~IsStr(line) THEN stream
                    ELSE IF accepted THEN write_line(stream, line.s)
                    ELSE f_write_raise(stream)
       /\ wr' = [wr EXCEPT !.done = IF out = "none" THEN @ + 1 ELSE @,
                           !.writes = IF IsStr(line) THEN @ + 1 ELSE @,
                           !.failed = IsStr(line) /\ ~accepted,
                           !.status = IF out = "none" THEN @ ELSE out]
       /\ pc' = IF out = "none" THEN "write" ELSE "idle"
  /\ UNCHANGED rd

\* The comprehension is exhausted: write returns.
WriteReturn ==
  /\ pc = "write"
  /\ wr.done = Len(wr.data)
  /\ wr' = [wr EXCEPT !.status = "ok"]
  /\ pc' = "idle"
  /\ UNCHANGED <<stream, rd>>

\* The caller repositions the stream between calls.
Seek ==
  /\ pc = "idle"
  /\ stream.open
  /\ \E p \in 0..Len(stream.content) :
       /\ p # stream.pos
       /\ stream' = [stream EXCEPT !.pos = p]
  /\ rd' = [rd EXCEPT !.n = 0]
  /\ UNCHANGED <<pc, wr>>

\* The caller empties the stream between calls.
Truncate ==
  /\ pc = "idle"
  /\ stream.open
  /\ stream.content # <<>>
  /\ stream' = [stream EXCEPT !.content = <<>>, !.pos = 0]
  /\ rd' = [rd EXCEPT !.n = 0]
  /\ wr' = NoWrite
  /\ UNCHANGED pc

\* The caller closes the stream between calls.
Close ==
  /\ pc = "idle"
  /\ stream.open
  /\ stream' = [stream EXCEPT !.open = FALSE]
  /\ rd' = [rd EXCEPT !.n = 0]
  /\ UNCHANGED <<pc, wr>>

Next ==
  \/ ReadOk
  \/ ReadRaise
  \/ WriteCall
  \/ WriteStep
  \/ WriteReturn
  \/ Seek
  \/ Truncate
  \/ Close

Spec == Init /\ [][Next]_vars

\* ---------------------------------------------- what the claims speak of
\* L1 \n L2 \n ... Ln \n : each string followed by one "\n".
RECURSIVE JoinLines(_)
JoinLines(ls) ==
  IF ls = <<>> THEN <<>> ELSE Head(ls) \o <<10>> \o JoinLines(Tail(ls))

\* The newline characters of universal newlines: "\n" and "\r".
Newlines == {10, 13}

\* Universal-newline splitting: "\n", "\r\n" and "\r" are the line
\* boundaries and nothing else is; a last fragment counts if not empty.
RECURSIVE UniversalLoop(_, _, _, _)
UniversalLoop(s, k, cur, acc) ==
  IF k > Len(s)
  THEN IF cur = <<>> THEN acc ELSE Append(acc, cur)
  ELSE IF s[k] \in Newlines
       THEN LET next == IF s[k] = 13 /\ k < Len(s) /\ s[k + 1] = 10
                        THEN k + 2 ELSE k + 1
            IN  UniversalLoop(s, next, <<>>, Append(acc, cur))
       ELSE UniversalLoop(s, k + 1, Append(cur, s[k]), acc)

UniversalLines(s) == UniversalLoop(s, 1, <<>>, <<>>)

\* The pieces of every string of ls, in order.
RECURSIVE PiecesOf(_)
PiecesOf(ls) ==
  IF ls = <<>> THEN <<>>
  ELSE SplitAtNL(Head(ls), 1, <<>>, <<>>) \o PiecesOf(Tail(ls))

Has(s, cs) == \E k \in 1..Len(s) : s[k] \in cs
AllStr(d) == \A k \in 1..Len(d) : IsStr(d[k])
NoneHas(d, cs) == \A k \in 1..Len(d) : ~Has(d[k].s, cs)

\* The last write call succeeded on an empty stream with data the caller
\* chose, and the last read call then read that stream from its start.
WrittenThenRead ==
  /\ pc = "idle"
  /\ wr.status = "ok" /\ wr.base = <<>> /\ ~wr.echo
  /\ rd.status = "ok" /\ rd.from = 0

\* The last read call succeeded, and the last write call then wrote the
\* value it returned to an empty stream, and succeeded.
ReadThenWritten ==
  /\ pc = "idle"
  /\ rd.status = "ok"
  /\ wr.status = "ok" /\ wr.base = <<>> /\ wr.echo

\* The text the current or last write call has added to the stream.
Appended == SubSeq(stream.content, Len(wr.base) + 1, Len(stream.content))

\* ------------------------------------------------------------------ claims

\* C1: a sequence of strings none of which holds a newline character,
\* written to an empty stream and read back from its start, comes back
\* equal: same length, same elements, same order.
C1_WriteReadRoundTrip ==
  (WrittenThenRead /\ AllStr(wr.data) /\ NoneHas(wr.data, Newlines))
    => rd.ret = Texts(wr.data)

\* C2: write(f, [L1..Ln]) on an empty stream leaves exactly L1 \n ... Ln \n,
\* issuing one stream write per element and none for n = 0.
C2_WriteContent ==
  (pc = "idle" /\ wr.status = "ok" /\ wr.base = <<>>)
    => /\ stream.content = JoinLines(Texts(wr.data))
       /\ wr.writes = Len(wr.data)

C2_Witness ==
  /\ pc = "idle" /\ wr.status = "ok" /\ wr.base = <<>>
  /\ Len(wr.data) = 2
  /\ wr.data[1].s # <<>> /\ wr.data[2].s = <<>>

\* C3: read splits at "\n", "\r\n" and "\r" and nowhere else: it returns
\* the universal-newline lines of the text it consumed.
C3_UniversalNewlines ==
  rd.status = "ok" => rd.ret = UniversalLines(rd.text)

\* C4: strings that may hold "\n" are written verbatim, each followed by
\* "\n", and read back as the pieces of each string split at its "\n".
C4_EmbeddedNewlines ==
  (WrittenThenRead /\ AllStr(wr.data) /\ NoneHas(wr.data, {13}))
    => /\ stream.content = JoinLines(Texts(wr.data))
       /\ rd.ret = PiecesOf(Texts(wr.data))

\* C5: reading a text and writing the value read to an empty stream gives
\* back the text that was read.
C5_ReadWriteRoundTrip ==
  ReadThenWritten => stream.content = rd.text

\* A text in the form write produces: empty or ending in "\n", and holding
\* no line boundary other than "\n".
Canonical(c) ==
  /\ c = <<>> \/ c[Len(c)] = 10
  /\ \A k \in 1..Len(c) : c[k] \in LineBoundaries => c[k] = 10

\* C5, amended: reading a text and writing the value read to an empty
\* stream gives back the text that was read exactly when that text is empty
\* or ends in "\n" and holds no line boundary other than "\n"; what is
\* written is always the lines read, each followed by "\n".
C5_RoundTripIffCanonical ==
  ReadThenWritten
    => /\ stream.content = JoinLines(rd.ret)
       /\ (stream.content = rd.text) <=> Canonical(rd.text)

C5_Witness ==
  /\ ReadThenWritten
  /\ Len(rd.ret) = 2
  /\ stream.content = rd.text

\* C6: every failure of read or write is one the stream raised; the adapter
\* raises none of its own, whatever the elements of data are.
C6_OnlyStreamErrors ==
  /\ rd.status \in {"none", "ok", "stream"}
  /\ wr.status \in {"none", "running", "ok", "stream"}
  /\ wr.status = "stream" => wr.failed

\* C6, amended: a stream write that raises ends the call with the stream's
\* error, is not issued again and is followed by no other; a call ends with
\* the stream's error only if a stream operation raised; and the only error
\* of the adapter's own is the TypeError of  line + "\n"  for an element
\* that is not a string, raised before the stream is touched for it.
C6_ErrorPropagation ==
  /\ rd.status \in {"none", "ok", "stream"}
  /\ rd.status = "stream" => (rd.ret = <<>> /\ stream.ops = <<"read">>)
  /\ wr.failed => /\ wr.status = "stream"
                  /\ pc = "idle"
                  /\ wr.writes = wr.done + 1
  /\ wr.status = "stream" => wr.failed
  /\ wr.status = "TypeError" => /\ ~IsStr(wr.data[wr.done + 1])
                                /\ ~wr.failed
                                /\ wr.writes = wr.done
  /\ AllStr(wr.data) => wr.status \in {"none", "running", "ok", "stream"}

C6_Witness ==
  /\ wr.failed
  /\ wr.status = "stream"
  /\ wr.done >= 1
  /\ AllStr(wr.data)
  /\ Len(wr.data) > wr.done + 1

\* A step of read or write, as opposed to a step of the caller: a read, the
\* call of write (the only step that leaves pc = "write" from "idle"), or a
\* step inside write.
AdapterStep == ReadOk \/ ReadRaise \/ pc' = "write" \/ pc = "write"

\* The operations the last call issued on the stream: a read call one
\* read, a write call one write for each element it reached.
OpsOfCall ==
  /\ \A k \in 1..Len(stream.ops) : stream.ops[k] \in {"read", "write"}
  /\ rd.n >= 1 => stream.ops = <<"read">>
  /\ pc = "write" => stream.ops = [k \in 1..wr.writes |-> "write"]
  /\ (pc = "write" \/ wr.status = "ok") => wr.writes = wr.done
  /\ wr.status = "ok" => wr.done = Len(wr.data)
  /\ wr.writes <= Len(wr.data)

\* C7: no step of read or write opens or closes the stream, and the only
\* stream operations are one read per read call and one write per element
\* per write call.
C7_Lifecycle ==
  /\ [][AdapterStep => stream'.open = stream.open]_vars
  /\ []OpsOfCall

C7_Witness ==
  /\ pc = "idle" /\ stream.open
  /\ rd.n >= 1 /\ rd.ret # <<>>
  /\ wr.status = "ok" /\ Len(wr.data) = 2

\* C8: whatever calls came before, the value read returns is the lines of
\* the text the stream handed it and nothing else, and the text a
\* successful write adds is its data's strings, each followed by "\n", and
\* nothing else.
C8_Stateless ==
  /\ rd.status = "ok" => rd.ret = splitlines(rd.text)
  /\ (pc = "idle" /\ wr.status = "ok") => Appended = JoinLines(Texts(wr.data))

C8_Witness ==
  /\ pc = "idle"
  /\ wr.status = "ok" /\ wr.chained /\ wr.prev # <<>> /\ wr.data # <<>>
  /\ rd.status = "ok" /\ rd.n = 1 /\ rd.from > 0 /\ rd.ret # <<>>

\* C9: a read from position p returns the lines of the text from p to the
\* end and leaves the position at the end; a read that follows it with
\* nothing in between returns the empty sequence.
C9_ReadConsumes ==
  rd.n >= 1
    => /\ rd.text = SubSeq(stream.content, rd.from + 1, Len(stream.content))
       /\ rd.ret = splitlines(rd.text)
       /\ stream.pos = Len(stream.content)
       /\ rd.n = 2 => (rd.from = Len(stream.content) /\ rd.ret = <<>>)

C9_Witness ==
  /\ rd.n = 2
  /\ stream.content # <<>>
  /\ stream.open

\* C10: while write runs and after it, the text added is L1 \n ... Lk \n
\* for the k elements done, one stream write each; a stream write that
\* raises leaves the text of the elements before it, ends the call with the
\* stream's error and is followed by no other write; and two successful
\* calls in a row leave what one call with the concatenated data leaves.
C10_PrefixInvariant ==
  wr.status # "none"
    => /\ wr.done <= Len(wr.data)
       /\ SubSeq(stream.content, 1, Len(wr.base)) = wr.base
       /\ Appended = JoinLines(Texts(SubSeq(wr.data, 1, wr.done)))
       /\ wr.writes = wr.done + (IF wr.failed THEN 1 ELSE 0)
       /\ wr.failed => (pc = "idle" /\ wr.status = "stream")
       /\ (wr.status = "ok" /\ wr.chained)
            => stream.content =
                 wr.prevbase \o JoinLines(Texts(wr.prev \o wr.data))

C10_Witness ==
  /\ wr.chained /\ wr.prev # <<>>
  /\ wr.failed /\ wr.status = "stream"
  /\ wr.done >= 1

====
